---- MODULE Spec2Model ----
(***************************************************************************)
(* Model of the FNOL claim workflow of backend/agents/orchestrator_agent.py *)
(* together with the stage processors it invokes (intake_agent.py,          *)
(* risk_assessment_agent.py, routing_agent.py).                             *)
(*                                                                          *)
(* One run of process_claim is modelled: `state` is the LangGraph state     *)
(* dict (the WorkflowState channels), `pc` the node the compiled graph runs *)
(* next, `result` the dict process_claim returns.  A stage processor may    *)
(* raise on any invocation; which invocations raise is an input.            *)
(*                                                                          *)
(* `executed` lists the nodes the graph has run in this run, `history` the  *)
(* workflow_status of every record process_claim has returned.  `clock` is  *)
(* the value time.time() returns, in ticks; the timestamps of log entries   *)
(* are not modelled.  `heap` holds the dict objects reachable from the      *)
(* module-level orchestrator and from its callers: a dict value that is a   *)
(* dict is held as the name of that object.  `threads` holds the runs of    *)
(* process_claim that executor threads perform concurrently.                *)
(*                                                                          *)
(* Python None is the string None for string-typed fields and the empty     *)
(* sequence for number-typed fields (a present number n is <<n>>).  Keys a  *)
(* node returns that are not channels of WorkflowState are not kept by the  *)
(* graph and are not modelled.  Floats are exact rationals.                 *)
(*                                                                          *)
(* The specifications of a single processor (IntakeAgent,                   *)
(* RiskAssessmentAgent, RoutingAgent, DocumentationAgent) and of the        *)
(* background task of claim_routes.py use the same variables; the section   *)
(* of each says what they hold there.                                       *)
(***************************************************************************)
EXTENDS Integers, Sequences, FiniteSets, TLC

VARIABLES state, pc, result, executed, history, clock, heap, threads

vars == <<state, pc, result, executed, history, clock, heap, threads>>

(***************************************************************************)
(* Bounds of the model                                                      *)
(***************************************************************************)
\* max_retries given to OrchestratorAgent ranges over 0..MaxRetriesBound
MaxRetriesBound == 3

\* a run that reaches the end of routing takes 0..MaxElapsed ticks
MaxElapsed == 2

\* process_claim is called at most MaxRuns times, one call after another
MaxRuns == 2

(***************************************************************************)
(* Values                                                                   *)
(***************************************************************************)
None == "None"
NoNumber == <<>>
EmptyDict == <<>>

\* str(error) of the exception a stage processor raised
ErrText == "error"

\* the day datetime.now() falls on (intake's future-date rule)
Today == 100

(***************************************************************************)
(* Program constants                                                        *)
(***************************************************************************)
FAST_TRACK_AMOUNT == 1000
COMPLEX_AMOUNT == 25000
HIGH_VALUE_THRESHOLD == 50000
MEDIUM_VALUE_THRESHOLD == 10000
MAX_REASONABLE_AMOUNT == 1000000

CLAIM_TYPES ==
    {"auto_collision", "auto_accident", "auto_theft", "auto_glass",
     "auto_comprehensive", "property_damage", "flood", "liability",
     "medical", "medical_payment"}

WorkflowStatus == {"initiated", "in_progress", "completed", "failed", "retry_pending"}
AgentStatus == {"pending", "processing", "completed", "failed", "retrying"}

(***************************************************************************)
(* Claims submitted to process_claim                                        *)
(***************************************************************************)
InputTypes ==
    {"auto_glass", "windshield", "auto_collision", "auto_theft",
     "liability", "medical", "medical_payment"}
InputAmounts == {400, 1000, 12000, 25001, 60000}
InputTenures == {NoNumber, <<10>>, <<2000>>}
InputPoliceReports == {None, "RPT-1"}
InputLocations == {None, "789 Elm St"}
InputPreviousClaims == {0, 3}

ClaimInputs ==
    [claim_id : {"CLM-1"},
     type : InputTypes,
     date : {<<90>>},
     amount : InputAmounts,
     description : {"Vehicle damaged"},
     customer_id : {"CUST-1"},
     policy_number : {"POL-1"},
     incident_location : InputLocations,
     police_report : InputPoliceReports,
     injuries_reported : BOOLEAN,
     other_party_involved : BOOLEAN,
     timestamp_submitted : {[day |-> 91, hour |-> 7]},
     customer_tenure_days : InputTenures,
     previous_claims_count : InputPreviousClaims]

ClaimFields ==
    {"claim_id", "type", "date", "amount", "description", "customer_id",
     "policy_number", "incident_location", "police_report",
     "injuries_reported", "other_party_involved", "timestamp_submitted",
     "customer_tenure_days", "previous_claims_count"}

\* the claim fields of a state dict
ClaimOf(st) == [f \in ClaimFields |-> st[f]]

(***************************************************************************)
(* IntakeAgent (intake_agent.py)                                            *)
(***************************************************************************)
REQUIRED_FIELDS ==
    <<"claim_id", "type", "date", "amount", "description", "customer_id",
      "policy_number", "incident_location", "timestamp_submitted">>

\* value is None or value == "" or value == "null"
IsMissing(claim, field) ==
    CASE field = "date" -> claim.date = NoNumber
      [] field \in {"amount", "timestamp_submitted"} -> FALSE
      [] OTHER -> claim[field] \in {None, "", "null"}

validate_required_fields(claim) ==
    LET missing == SelectSeq(REQUIRED_FIELDS, LAMBDA f : IsMissing(claim, f))
    IN  [i \in 1..Len(missing) |->
            IF missing[i] = "incident_location"
            THEN "missing_location"
            ELSE "missing_" \o missing[i]]

validate_data_types(claim) ==
    (IF claim.amount < 0 THEN <<"invalid_amount_negative">> ELSE <<>>)
    \o (IF claim.type \notin {None, ""} /\ claim.type \notin CLAIM_TYPES
        THEN <<"invalid_claim_type">> ELSE <<>>)

validate_business_rules(claim) ==
    (IF claim.date # NoNumber /\ claim.date[1] > Today
     THEN <<"future_date_not_allowed">> ELSE <<>>)
    \o (IF claim.amount # 0
        THEN IF claim.amount > MAX_REASONABLE_AMOUNT
             THEN <<"amount_requires_special_handling">>
             ELSE IF claim.amount <= 0
                  THEN <<"invalid_amount_zero_or_negative">>
                  ELSE <<>>
        ELSE <<>>)

IntakeAgent_process(claim) ==
    LET errors == validate_required_fields(claim)
                  \o validate_data_types(claim)
                  \o validate_business_rules(claim)
    IN  [validation_errors |-> errors,
         is_valid |-> (Len(errors) = 0)]

(***************************************************************************)
(* RiskAssessmentAgent (risk_assessment_agent.py)                           *)
(***************************************************************************)
Truthy(s) == s \notin {None, ""}

\* claim.get("customer_tenure_days", 0) is None when the key holds None, and
\* `tenure_days < 30` then raises TypeError
RiskRaises(claim) == claim.customer_tenure_days = NoNumber

\* variant of is_late_reporting: the delay is measured up to the current
\* time instead of up to timestamp_submitted
is_late_reporting_UntilNow(claim) ==
    /\ claim.date # NoNumber
    /\ (Today + clock) - claim.date[1] > 7

is_late_reporting(claim) ==
    /\ claim.date # NoNumber
    /\ claim.timestamp_submitted.day - claim.date[1] > 7

is_suspicious_timing(claim) ==
    \/ claim.timestamp_submitted.hour >= 22
    \/ claim.timestamp_submitted.hour <= 5

\* "hit and run" in description.lower()
HitAndRunDescriptions == {"Hit and run in parking lot"}
\* "theft" in claim_type
TheftTypes == {"auto_theft"}
\* location in ["unknown location", "unknown", ""] or not location.strip()
UnknownLocations == {None, "", "unknown", "unknown location"}

\* variant of AddRisk: the reason is recorded, the points are not added
AddRisk_ReasonOnly(acc, cond, points, reason) ==
    IF cond
    THEN [score |-> acc.score, reasons |-> Append(acc.reasons, reason)]
    ELSE acc

AddRisk(acc, cond, points, reason) ==
    IF cond
    THEN [score |-> acc.score + points, reasons |-> Append(acc.reasons, reason)]
    ELSE acc

RiskLevelOf(risk_score) ==
    IF risk_score <= 3 THEN "LOW"
    ELSE IF 4 <= risk_score /\ risk_score <= 6 THEN "MEDIUM"
    ELSE "HIGH"

\* variant of Clamp: max(1, risk_score) only
Clamp_NoUpper(risk_score) == IF risk_score > 1 THEN risk_score ELSE 1

Clamp(risk_score) ==
    LET lo == IF risk_score > 1 THEN risk_score ELSE 1
    IN  IF lo < 10 THEN lo ELSE 10

\* defined for claims on which RiskRaises is false
RiskAssessmentAgent_process(claim, errors) ==
    LET claim_type == claim.type
        tenure_days == claim.customer_tenure_days[1]
        police_report == Truthy(claim.police_report)
        previous_claims == claim.previous_claims_count
        amount == claim.amount
        r0 == [score |-> 2, reasons |-> <<>>]
        \* Rule 1
        r1 == IF amount > 50000
              THEN IF claim_type = "liability" /\ police_report
                      /\ tenure_days > 1000 /\ previous_claims = 0
                   THEN AddRisk(r0, TRUE, 1, "High-value liability claim (well-documented)")
                   ELSE AddRisk(r0, TRUE, 4, "Very high claim amount (>$50k)")
              ELSE IF amount > 20000
                   THEN IF claim_type = "liability" /\ police_report /\ tenure_days > 365
                        THEN AddRisk(r0, TRUE, 1, "Medium-high liability claim (documented)")
                        ELSE AddRisk(r0, TRUE, 3, "High claim amount (>$20k)")
                   ELSE r0
        \* Rule 2
        r2 == IF tenure_days < 30 /\ amount > 15000
              THEN AddRisk(r1, ~(claim_type = "liability" /\ police_report), 4,
                           "New customer (<30 days) with high claim")
              ELSE IF tenure_days < 90 /\ amount > 10000
                   THEN AddRisk(r1, ~(claim_type = "liability" /\ police_report), 2,
                                "Recent customer (<90 days) with significant claim")
                   ELSE r1
        \* Rule 3
        r3 == IF previous_claims > 4
              THEN AddRisk(r2, TRUE, 3, "Excessive previous claims (>4)")
              ELSE AddRisk(r2, previous_claims > 2, 2, "Multiple previous claims")
        \* Rule 4
        r4 == IF amount <= 1
              THEN AddRisk(r3, TRUE, 3, "Suspicious minimal amount claim")
              ELSE AddRisk(r3, amount < 100 /\ previous_claims > 0, 2,
                           "Low amount claim with claim history")
        \* Rule 5
        r5 == AddRisk(r4, Len(errors) > 0, 2, "Incomplete or missing critical data")
        \* Rule 6
        r6 == AddRisk(r5, claim.incident_location \in UnknownLocations, 2,
                      "Unknown or missing incident location")
        \* Rule 7
        r7 == AddRisk(r6, ~police_report /\ amount > 10000
                          /\ ~(claim_type = "liability" /\ tenure_days > 1000),
                      2, "High-value claim without police report")
        \* Rule 8
        r8 == AddRisk(r7, claim.description \in HitAndRunDescriptions /\ ~police_report,
                      3, "Hit and run claim without police report")
        \* Rule 9
        r9 == AddRisk(r8, claim_type \in TheftTypes /\ tenure_days < 60, 3,
                      "Theft claim from new customer")
        \* Rule 10
        r10 == AddRisk(r9, 9900 <= amount /\ amount <= 10100, 2,
                       "Claim amount near $10k threshold")
        \* Rule 11
        r11 == AddRisk(r10, is_late_reporting(claim), 1, "Late claim reporting")
        \* Rule 12
        r12 == AddRisk(r11, is_suspicious_timing(claim), 1, "Suspicious submission timing")
        risk_score == Clamp(r12.score)
    IN  [claim |-> claim,
         validation_errors |-> errors,
         risk_score |-> risk_score,
         risk_level |-> RiskLevelOf(risk_score),
         risk_reasons |-> r12.reasons]

(***************************************************************************)
(* RoutingAgent (routing_agent.py)                                          *)
(***************************************************************************)
SPECIAL_TYPES == {"auto_theft", "flood", "fire"}

\* variant of RoutingDecision: the fraud rule comes before the injury rule
RoutingDecision_FraudFirst(claim, risk_level) ==
    IF risk_level = "HIGH"
    THEN [priority |-> "urgent", adjuster_tier |-> "fraud_specialist"]
    ELSE IF claim.injuries_reported \/ claim.type \in {"liability", "medical_payment"}
    THEN [priority |-> "urgent", adjuster_tier |-> "senior"]
    ELSE IF claim.amount >= HIGH_VALUE_THRESHOLD
    THEN [priority |-> "urgent", adjuster_tier |-> "senior"]
    ELSE IF claim.amount >= MEDIUM_VALUE_THRESHOLD /\ risk_level \in {"MEDIUM", "HIGH"}
    THEN [priority |-> "normal", adjuster_tier |-> "senior"]
    ELSE IF risk_level = "MEDIUM"
    THEN [priority |-> "normal", adjuster_tier |-> "standard"]
    ELSE IF claim.type = "auto_glass" /\ risk_level = "LOW"
    THEN [priority |-> "low", adjuster_tier |-> "standard"]
    ELSE [priority |-> "normal", adjuster_tier |-> "standard"]

\* the ordered rule table: first matching rule wins
RoutingDecision(claim, risk_level) ==
    IF claim.injuries_reported \/ claim.type \in {"liability", "medical_payment"}
    THEN [priority |-> "urgent", adjuster_tier |-> "senior"]
    ELSE IF risk_level = "HIGH"
    THEN [priority |-> "urgent", adjuster_tier |-> "fraud_specialist"]
    ELSE IF claim.amount >= HIGH_VALUE_THRESHOLD
    THEN [priority |-> "urgent", adjuster_tier |-> "senior"]
    ELSE IF claim.amount >= MEDIUM_VALUE_THRESHOLD /\ risk_level \in {"MEDIUM", "HIGH"}
    THEN [priority |-> "normal", adjuster_tier |-> "senior"]
    ELSE IF risk_level = "MEDIUM"
    THEN [priority |-> "normal", adjuster_tier |-> "standard"]
    ELSE IF claim.type = "auto_glass" /\ risk_level = "LOW"
    THEN [priority |-> "low", adjuster_tier |-> "standard"]
    ELSE [priority |-> "normal", adjuster_tier |-> "standard"]

\* variant of RoutingAgent_process: validation errors set the priority to
\* normal whatever it was
RoutingAgent_process_ErrorsSetNormal(risk_output) ==
    LET claim == risk_output.claim
        validation_errors == risk_output.validation_errors
        d0 == RoutingDecision(claim, risk_output.risk_level)
        d1 == IF Len(validation_errors) > 0
              THEN [d0 EXCEPT !.priority = "normal"]
              ELSE d0
        d2 == IF claim.type \in SPECIAL_TYPES /\ d1.adjuster_tier = "standard"
                 /\ claim.amount >= MEDIUM_VALUE_THRESHOLD
              THEN [d1 EXCEPT !.adjuster_tier = "senior"]
              ELSE d1
    IN  [claim_id |-> claim.claim_id,
         risk_level |-> risk_output.risk_level,
         priority |-> d2.priority,
         adjuster_tier |-> d2.adjuster_tier,
         validation_errors |-> validation_errors,
         risk_reasons |-> risk_output.risk_reasons]

\* risk_output: a dict with claim, risk_level, validation_errors, risk_reasons
RoutingAgent_process(risk_output) ==
    LET claim == risk_output.claim
        validation_errors == risk_output.validation_errors
        d0 == RoutingDecision(claim, risk_output.risk_level)
        d1 == IF Len(validation_errors) > 0 /\ d0.priority = "low"
              THEN [d0 EXCEPT !.priority = "normal"]
              ELSE d0
        d2 == IF claim.type \in SPECIAL_TYPES /\ d1.adjuster_tier = "standard"
                 /\ claim.amount >= MEDIUM_VALUE_THRESHOLD
              THEN [d1 EXCEPT !.adjuster_tier = "senior"]
              ELSE d1
    IN  [claim_id |-> claim.claim_id,
         risk_level |-> risk_output.risk_level,
         priority |-> d2.priority,
         adjuster_tier |-> d2.adjuster_tier,
         validation_errors |-> validation_errors,
         risk_reasons |-> risk_output.risk_reasons]

(***************************************************************************)
(* OrchestratorAgent (orchestrator_agent.py)                                *)
(***************************************************************************)
SetStatus(st, agent_name, status) ==
    [st EXCEPT !.agent_statuses =
        [a \in DOMAIN @ \cup {agent_name} |-> IF a = agent_name THEN status ELSE @[a]]]

initialize_workflow_state(claim_data, max_retries, current_time) ==
    claim_data @@
    [workflow_status |-> "initiated",
     processing_start_time |-> current_time,
     processing_end_time |-> 0,
     total_processing_time |-> 0,
     agent_statuses |-> [intake |-> "pending",
                         risk_assessment |-> "pending",
                         routing |-> "pending"],
     retry_count |-> 0,
     max_retries |-> max_retries,
     workflow_log |-> <<[event |-> "workflow_initiated",
                         agent |-> None,
                         details |-> "Workflow started for claim processing"]>>,
     inter_agent_communication |-> <<>>,
     current_agent |-> "orchestrator",
     next_agent |-> "intake",
     validation_errors |-> <<>>,
     parallel_results |-> EmptyDict,
     \* channels of WorkflowState that hold no value yet
     risk_score |-> NoNumber,
     risk_level |-> None,
     risk_reasons |-> <<>>,
     priority |-> None,
     adjuster_tier |-> None,
     error |-> None,
     processing_mode |-> None]

log_workflow_event(st, event, agent, details) ==
    [st EXCEPT !.workflow_log =
        Append(@, [event |-> event, agent |-> agent, details |-> details])]

log_inter_agent_communication(st, from_agent, to_agent, message, data) ==
    [st EXCEPT !.inter_agent_communication =
        Append(@, [from_agent |-> from_agent, to_agent |-> to_agent,
                   message |-> message, data |-> data])]

\* variant of RetryAllowed: the test is off by one
RetryAllowed_OffByOne(retry_count, max_retries) == retry_count <= max_retries

\* the retry test of handle_agent_error
RetryAllowed(retry_count, max_retries) == retry_count < max_retries

ErrorMsg(agent_name) == "Agent " \o agent_name \o " failed: " \o ErrText

RetryDetails(n, max_retries, agent_name) ==
    "Retry " \o ToString(n) \o "/" \o ToString(max_retries)
    \o " for agent " \o agent_name

\* variant of handle_agent_error: the retries are counted on the orchestrator,
\* in a counter all runs share, not in the state of the run
handle_agent_error_SharedCounter(st, agent_name) ==
    LET retry_count == heap.workflow_metrics.total_claims_processed
        max_retries == st.max_retries
        s1 == log_workflow_event(st, "agent_error", agent_name, ErrorMsg(agent_name))
        s2 == SetStatus(s1, agent_name, "failed")
    IN  IF retry_count < max_retries
        THEN log_workflow_event(
                 [SetStatus(s2, agent_name, "retrying") EXCEPT
                     !.retry_count = retry_count + 1,
                     !.workflow_status = "retry_pending"],
                 "retry_initiated", "orchestrator",
                 RetryDetails(retry_count + 1, max_retries, agent_name))
        ELSE log_workflow_event(
                 [s2 EXCEPT
                     !.workflow_status = "failed",
                     !.error = "Max retries exceeded for agent " \o agent_name
                               \o ": " \o ErrorMsg(agent_name)],
                 "workflow_failed", "orchestrator",
                 "Max retries exceeded for agent " \o agent_name)

\* variant of handle_agent_error: the attempt is counted before the test, so
\* the exhaustion branch also increments retry_count
handle_agent_error_CountsFirst(st, agent_name) ==
    LET retry_count == st.retry_count
        max_retries == st.max_retries
        s1 == log_workflow_event(st, "agent_error", agent_name, ErrorMsg(agent_name))
        s2 == [SetStatus(s1, agent_name, "failed") EXCEPT !.retry_count = retry_count + 1]
    IN  IF retry_count < max_retries
        THEN log_workflow_event(
                 [SetStatus(s2, agent_name, "retrying") EXCEPT
                     !.workflow_status = "retry_pending"],
                 "retry_initiated", "orchestrator",
                 RetryDetails(retry_count + 1, max_retries, agent_name))
        ELSE log_workflow_event(
                 [s2 EXCEPT
                     !.workflow_status = "failed",
                     !.error = "Max retries exceeded for agent " \o agent_name
                               \o ": " \o ErrorMsg(agent_name)],
                 "workflow_failed", "orchestrator",
                 "Max retries exceeded for agent " \o agent_name)

handle_agent_error(st, agent_name) ==
    LET retry_count == st.retry_count
        max_retries == st.max_retries
        s1 == log_workflow_event(st, "agent_error", agent_name, ErrorMsg(agent_name))
        s2 == SetStatus(s1, agent_name, "failed")
    IN  IF RetryAllowed(retry_count, max_retries)
        THEN log_workflow_event(
                 [SetStatus(s2, agent_name, "retrying") EXCEPT
                     !.retry_count = retry_count + 1,
                     !.workflow_status = "retry_pending"],
                 "retry_initiated", "orchestrator",
                 RetryDetails(retry_count + 1, max_retries, agent_name))
        ELSE log_workflow_event(
                 [s2 EXCEPT
                     !.workflow_status = "failed",
                     !.error = "Max retries exceeded for agent " \o agent_name
                               \o ": " \o ErrorMsg(agent_name)],
                 "workflow_failed", "orchestrator",
                 "Max retries exceeded for agent " \o agent_name)

(***************************************************************************)
(* Workflow metrics.  A float is the rational num/den in lowest terms.      *)
(***************************************************************************)
RECURSIVE GCD(_, _)
GCD(a, b) == IF b = 0 THEN a ELSE GCD(b, a % b)

Rat(num, den) ==
    LET g == GCD(num, den)
    IN  IF num = 0 THEN [num |-> 0, den |-> 1]
        ELSE [num |-> num \div g, den |-> den \div g]

\* x * k + t for a float x and integers k, t
RatMulAdd(x, k, t) == Rat(x.num * k + t * x.den, x.den)

\* x / n for a float x and an integer n > 0
RatDiv(x, n) == Rat(x.num, x.den * n)

\* d[k] = v on a dict
DictSet(d, k, v) == [x \in DOMAIN d \cup {k} |-> IF x = k THEN v ELSE d[x]]

\* d.get(k, default)
DictGet(d, k, default) == IF k \in DOMAIN d THEN d[k] ELSE default

\* self.workflow_metrics of OrchestratorAgent.__init__ and the dict object its
\* retry_statistics key refers to
InitialHeap ==
    [workflow_metrics |->
         [total_claims_processed |-> 0,
          successful_claims |-> 0,
          failed_claims |-> 0,
          average_processing_time |-> Rat(0, 1),
          retry_statistics |-> "retry_statistics"],
     retry_statistics |-> EmptyDict]

\* the incremental mean of update_workflow_metrics
IncrementalMean(old_avg, n, new_value) == RatDiv(RatMulAdd(old_avg, n - 1, new_value), n)

\* average_processing_time after the update, n being the incremented count
AverageAfter(old_avg, n, processing_time) ==
    IF processing_time > 0
    THEN IncrementalMean(old_avg, n, processing_time)
    ELSE old_avg

update_workflow_metrics(h, st) ==
    LET m == h.workflow_metrics
        n == m.total_claims_processed + 1
        m1 == [m EXCEPT !.total_claims_processed = n]
        m2 == IF st.workflow_status = "completed"
              THEN [m1 EXCEPT !.successful_claims = @ + 1]
              ELSE [m1 EXCEPT !.failed_claims = @ + 1]
        m3 == [m2 EXCEPT !.average_processing_time =
                             AverageAfter(@, n, st.total_processing_time)]
        retry_count == st.retry_count
        stats == h[m3.retry_statistics]
    IN  IF retry_count > 0
        THEN [h EXCEPT !.workflow_metrics = m3,
                       ![m3.retry_statistics] =
                           DictSet(stats, retry_count, DictGet(stats, retry_count, 0) + 1)]
        ELSE [h EXCEPT !.workflow_metrics = m3]

\* dict.copy(): a new dict object holding the same values, a dict value
\* being the same object
get_workflow_metrics(h) == [x \in DOMAIN h \cup {"snapshot"} |->
                               IF x = "snapshot" THEN h.workflow_metrics ELSE h[x]]

\* variant of determine_processing_mode: the complex test comes first
determine_processing_mode_ComplexFirst(claim) ==
    IF \/ claim.amount > COMPLEX_AMOUNT
       \/ claim.injuries_reported
       \/ claim.other_party_involved
       \/ claim.type \in {"liability", "medical_payment"}
    THEN "complex"
    ELSE IF /\ claim.type \in {"auto_glass", "windshield"}
            /\ claim.amount < FAST_TRACK_AMOUNT
            /\ ~claim.injuries_reported
    THEN "fast_track"
    ELSE "standard"

determine_processing_mode(claim) ==
    IF /\ claim.type \in {"auto_glass", "windshield"}
       /\ claim.amount < FAST_TRACK_AMOUNT
       /\ ~claim.injuries_reported
    THEN "fast_track"
    ELSE IF \/ claim.amount > COMPLEX_AMOUNT
            \/ claim.injuries_reported
            \/ claim.other_party_involved
            \/ claim.type \in {"liability", "medical_payment"}
    THEN "complex"
    ELSE "standard"

(***************************************************************************)
(* Graph nodes.  `raises` says whether the stage processor invoked by the   *)
(* node raises.                                                             *)
(***************************************************************************)
NextAgentOf(processing_mode) ==
    IF processing_mode = "fast_track" THEN "fast_track"
    ELSE IF processing_mode = "standard" THEN "parallel_processing"
    ELSE "risk_assessment"

\* variant of intake_node: a claim that is not valid is a failure of the stage
intake_node_ValidationFatal(st, raises) ==
    LET s1 == [SetStatus(st, "intake", "processing") EXCEPT
                   !.current_agent = "intake",
                   !.workflow_status = "in_progress"]
        s2 == log_workflow_event(s1, "agent_started", "intake",
                                 "Starting intake processing")
        res == IntakeAgent_process(ClaimOf(s2))
        processing_mode == determine_processing_mode(s2)
        s3 == log_inter_agent_communication(
                  s2, "intake", "orchestrator",
                  "Intake completed, processing mode: " \o processing_mode,
                  [validation_errors |-> res.validation_errors])
        s4 == [SetStatus(s3, "intake", "completed") EXCEPT
                   !.validation_errors = res.validation_errors,
                   !.processing_mode = processing_mode,
                   !.parallel_results = EmptyDict,
                   !.next_agent = NextAgentOf(processing_mode)]
    IN  IF raises \/ ~res.is_valid
        THEN handle_agent_error(s2, "intake")
        ELSE log_workflow_event(s4, "agent_completed", "intake",
                 "Intake processing completed, next: " \o s4.next_agent)

intake_node(st, raises) ==
    LET s1 == [SetStatus(st, "intake", "processing") EXCEPT
                   !.current_agent = "intake",
                   !.workflow_status = "in_progress"]
        s2 == log_workflow_event(s1, "agent_started", "intake",
                                 "Starting intake processing")
        res == IntakeAgent_process(ClaimOf(s2))
        processing_mode == determine_processing_mode(s2)
        s3 == log_inter_agent_communication(
                  s2, "intake", "orchestrator",
                  "Intake completed, processing mode: " \o processing_mode,
                  [validation_errors |-> res.validation_errors])
        s4 == [SetStatus(s3, "intake", "completed") EXCEPT
                   !.validation_errors = res.validation_errors,
                   !.processing_mode = processing_mode,
                   !.parallel_results = EmptyDict,
                   !.next_agent = NextAgentOf(processing_mode)]
    IN  IF raises
        THEN handle_agent_error(s2, "intake")
        ELSE log_workflow_event(s4, "agent_completed", "intake",
                 "Intake processing completed, next: " \o s4.next_agent)

risk_node(st, raises) ==
    LET s1 == [SetStatus(st, "risk_assessment", "processing") EXCEPT
                   !.current_agent = "risk_assessment"]
        s2 == log_workflow_event(s1, "agent_started", "risk_assessment",
                                 "Starting risk assessment")
        res == RiskAssessmentAgent_process(s2, s2.validation_errors)
        s3 == log_inter_agent_communication(
                  s2, "risk_assessment", "orchestrator",
                  "Risk assessment completed: " \o res.risk_level \o " risk",
                  [risk_score |-> res.risk_score, risk_reasons |-> res.risk_reasons])
        s4 == [SetStatus(s3, "risk_assessment", "completed") EXCEPT
                   !.validation_errors = res.validation_errors,
                   !.risk_score = <<res.risk_score>>,
                   !.risk_level = res.risk_level,
                   !.risk_reasons = res.risk_reasons,
                   !.next_agent = "routing"]
    IN  IF raises \/ RiskRaises(s2)
        THEN handle_agent_error(s2, "risk_assessment")
        ELSE log_workflow_event(s4, "agent_completed", "risk_assessment",
                                "Risk level: " \o res.risk_level)

\* variant of RoutingInput: the risk level is not handed over
RoutingInput_NoRiskLevel(st) ==
    [claim |-> st,
     risk_score |-> st.risk_score,
     risk_level |-> None,
     risk_reasons |-> st.risk_reasons,
     validation_errors |-> st.validation_errors]

RoutingInput(st) ==
    [claim |-> st,
     risk_score |-> st.risk_score,
     risk_level |-> st.risk_level,
     risk_reasons |-> st.risk_reasons,
     validation_errors |-> st.validation_errors]

\* enhanced_state.update(result) for a RoutingAgent result
MergeRouting(st, res) ==
    [st EXCEPT !.risk_level = res.risk_level,
               !.priority = res.priority,
               !.adjuster_tier = res.adjuster_tier,
               !.validation_errors = res.validation_errors,
               !.risk_reasons = res.risk_reasons]

routing_node(st, raises, now) ==
    LET s1 == [SetStatus(st, "routing", "processing") EXCEPT
                   !.current_agent = "routing"]
        s2 == log_workflow_event(s1, "agent_started", "routing",
                                 "Starting routing decision")
        res == RoutingAgent_process(RoutingInput(s2))
        s3 == log_inter_agent_communication(
                  s2, "routing", "orchestrator",
                  "Routing completed: " \o res.priority \o " priority, "
                  \o res.adjuster_tier \o " tier",
                  [priority |-> res.priority, adjuster_tier |-> res.adjuster_tier])
        s4 == [SetStatus(MergeRouting(s3, res), "routing", "completed") EXCEPT
                   !.workflow_status = "completed",
                   !.processing_end_time = now,
                   !.total_processing_time = now - st.processing_start_time,
                   !.current_agent = "completed",
                   !.next_agent = "none"]
    IN  IF raises
        THEN handle_agent_error(s2, "routing")
        ELSE log_workflow_event(s4, "workflow_completed", "orchestrator",
                                "Workflow completed")

parallel_processing_node(st, raises) ==
    LET s1 == log_workflow_event(
                  [st EXCEPT !.current_agent = "parallel_processing"],
                  "parallel_processing_started", "orchestrator",
                  "Starting parallel processing")
        s2 == SetStatus(s1, "risk_assessment", "processing")
        risk_result == RiskAssessmentAgent_process(ClaimOf(s2), s2.validation_errors)
        routing_result == RoutingAgent_process(risk_result)
        s3 == log_inter_agent_communication(
                  s2, "parallel_processing", "orchestrator",
                  "Parallel processing completed",
                  [risk_result |-> risk_result, preliminary_routing |-> routing_result])
        s4 == [SetStatus(MergeRouting(s3, routing_result), "risk_assessment", "completed")
               EXCEPT !.risk_score = <<risk_result.risk_score>>,
                      !.parallel_results = [risk |-> risk_result,
                                            preliminary_routing |-> routing_result],
                      !.next_agent = "final_routing"]
    IN  IF raises \/ RiskRaises(s2)
        THEN handle_agent_error(s2, "parallel_processing")
        ELSE log_workflow_event(s4, "parallel_processing_completed", "orchestrator",
                                "Parallel processing completed successfully")

\* the definition bound at graph.add_node: the later one of the two in the file
final_routing_node(st) ==
    MergeRouting(st, RoutingAgent_process(RoutingInput(st)))

\* the definition bound at graph.add_node: the later one of the two in the file
fast_track_node(st) ==
    [st EXCEPT !.risk_score = <<2>>,
               !.risk_level = "LOW",
               !.risk_reasons = <<"Fast-track processing - low complexity">>,
               !.priority = "low",
               !.adjuster_tier = "standard"]

\* variant of route_processing_mode: the standard mode is sent down the
\* sequential route
route_processing_mode_StandardSequential(st) ==
    LET mode == IF st.processing_mode = None THEN "standard" ELSE st.processing_mode
    IN  IF mode = "fast_track" THEN "fast_track" ELSE "sequential"

route_processing_mode(st) ==
    LET mode == IF st.processing_mode = None THEN "standard" ELSE st.processing_mode
    IN  IF mode = "fast_track" THEN "fast_track"
        ELSE IF mode = "standard" THEN "parallel"
        ELSE "sequential"

\* variant of IntakeEdge: the fast_track route leads to the risk node
IntakeEdge_FastTrackToRisk(st) ==
    CASE route_processing_mode(st) = "fast_track" -> "risk"
      [] route_processing_mode(st) = "parallel" -> "parallel_processing"
      [] route_processing_mode(st) = "sequential" -> "risk"

\* graph.add_conditional_edges("intake", route_processing_mode, {...})
IntakeEdge(st) ==
    CASE route_processing_mode(st) = "fast_track" -> "fast_track"
      [] route_processing_mode(st) = "parallel" -> "parallel_processing"
      [] route_processing_mode(st) = "sequential" -> "risk"

\* variant of Edge: the risk node is an end node
Edge_RiskEnds(node) ==
    CASE node = "fast_track" -> "END"
      [] node = "parallel_processing" -> "final_routing"
      [] node = "final_routing" -> "END"
      [] node = "risk" -> "END"
      [] node = "routing" -> "END"

\* graph.add_edge(node, successor)
Edge(node) ==
    CASE node = "fast_track" -> "END"
      [] node = "parallel_processing" -> "final_routing"
      [] node = "final_routing" -> "END"
      [] node = "risk" -> "routing"
      [] node = "routing" -> "END"

(***************************************************************************)
(* process_claim: one run of the compiled graph                             *)
(***************************************************************************)
NoResult == EmptyDict

\* the dict of process_claim's except branch
ExceptionResult ==
    [error |-> ErrText, processing_status |-> "failed", workflow_status |-> "failed"]

Init ==
    /\ clock = 0
    /\ \E claim_data \in ClaimInputs, max_retries \in 0..MaxRetriesBound :
           state = initialize_workflow_state(claim_data, max_retries, clock)
    /\ pc = "intake"
    /\ result = NoResult
    /\ executed = <<>>
    /\ history = <<>>
    /\ heap = InitialHeap
    /\ threads = <<>>

IntakeStep ==
    /\ pc = "intake"
    /\ \E raises \in BOOLEAN : state' = intake_node(state, raises)
    /\ pc' = IntakeEdge(state')
    /\ executed' = Append(executed, pc)
    /\ UNCHANGED <<result, history, clock, heap, threads>>

FastTrackStep ==
    /\ pc = "fast_track"
    /\ state' = fast_track_node(state)
    /\ pc' = Edge(pc)
    /\ executed' = Append(executed, pc)
    /\ UNCHANGED <<result, history, clock, heap, threads>>

ParallelStep ==
    /\ pc = "parallel_processing"
    /\ \E raises \in BOOLEAN : state' = parallel_processing_node(state, raises)
    /\ pc' = Edge(pc)
    /\ executed' = Append(executed, pc)
    /\ UNCHANGED <<result, history, clock, heap, threads>>

\* the bound final_routing_node has no try/except: an exception of the
\* routing processor leaves app.invoke and process_claim returns the dict of
\* its except branch
FinalRoutingStep ==
    /\ pc = "final_routing"
    /\ \E raises \in BOOLEAN :
           IF raises
           THEN /\ result' = ExceptionResult
                /\ pc' = "returned"
                /\ history' = Append(history, result'.workflow_status)
                /\ UNCHANGED state
           ELSE /\ state' = final_routing_node(state)
                /\ pc' = Edge(pc)
                /\ UNCHANGED <<result, history>>
    /\ executed' = Append(executed, pc)
    /\ UNCHANGED <<clock, heap, threads>>

RiskStep ==
    /\ pc = "risk"
    /\ \E raises \in BOOLEAN : state' = risk_node(state, raises)
    /\ pc' = Edge(pc)
    /\ executed' = Append(executed, pc)
    /\ UNCHANGED <<result, history, clock, heap, threads>>

\* the clock is read, and the metrics are updated, when the processor
\* returned
RoutingStep ==
    /\ pc = "routing"
    /\ \E raises \in BOOLEAN, elapsed \in 0..MaxElapsed :
           IF raises
           THEN /\ elapsed = 0
                /\ state' = routing_node(state, TRUE, clock)
                /\ UNCHANGED <<clock, heap>>
           ELSE /\ clock' = clock + elapsed
                /\ state' = routing_node(state, FALSE, clock')
                /\ heap' = update_workflow_metrics(heap, state')
    /\ pc' = Edge(pc)
    /\ executed' = Append(executed, pc)
    /\ UNCHANGED <<result, history, threads>>

\* app.invoke returned: process_claim logs and returns the final state
Return ==
    /\ pc = "END"
    /\ state' = log_workflow_event(state, "workflow_completed", "orchestrator",
                                   "Final status: " \o state.workflow_status)
    /\ result' = state'
    /\ pc' = "returned"
    /\ history' = Append(history, result'.workflow_status)
    /\ UNCHANGED <<executed, clock, heap, threads>>

NodeStep ==
    \/ IntakeStep
    \/ FastTrackStep
    \/ ParallelStep
    \/ FinalRoutingStep
    \/ RiskStep
    \/ RoutingStep

Next ==
    \/ IntakeStep
    \/ FastTrackStep
    \/ ParallelStep
    \/ FinalRoutingStep
    \/ RiskStep
    \/ RoutingStep
    \/ Return

Spec == Init /\ [][Next]_vars

(***************************************************************************)
(* Several calls of process_claim, one after another, against the           *)
(* module-level orchestrator, and callers of get_workflow_metrics.          *)
(***************************************************************************)
\* one claim for each path of the graph
RunClaimInputs ==
    [claim_id : {"CLM-1"},
     type : {"auto_glass", "auto_collision", "liability"},
     date : {<<90>>},
     amount : {400},
     description : {"Vehicle damaged"},
     customer_id : {"CUST-1"},
     policy_number : {"POL-1"},
     incident_location : {"789 Elm St"},
     police_report : {"RPT-1"},
     injuries_reported : {FALSE},
     other_party_involved : {FALSE},
     timestamp_submitted : {[day |-> 91, hour |-> 7]},
     customer_tenure_days : {<<2000>>},
     previous_claims_count : {0}]

InitRuns ==
    /\ clock = 0
    /\ \E claim_data \in RunClaimInputs, max_retries \in 0..MaxRetriesBound :
           state = initialize_workflow_state(claim_data, max_retries, clock)
    /\ pc = "intake"
    /\ result = NoResult
    /\ executed = <<>>
    /\ history = <<>>
    /\ heap = InitialHeap
    /\ threads = <<>>

\* the next call of process_claim; max_retries is the orchestrator's
NewClaim ==
    /\ pc = "returned"
    /\ Len(history) < MaxRuns
    /\ \E claim_data \in RunClaimInputs :
           state' = initialize_workflow_state(claim_data, state.max_retries, clock)
    /\ pc' = "intake"
    /\ result' = NoResult
    /\ executed' = <<>>
    /\ UNCHANGED <<history, clock, heap, threads>>

\* a caller obtains the metrics between two runs
GetMetrics ==
    /\ pc = "returned"
    /\ heap' = get_workflow_metrics(heap)
    /\ heap' # heap
    /\ UNCHANGED <<state, pc, result, executed, history, clock, threads>>

\* the caller assigns to a counter of the dict it was given
CallerResetsCounter ==
    /\ "snapshot" \in DOMAIN heap
    /\ heap.snapshot.total_claims_processed # 0
    /\ heap' = [heap EXCEPT !.snapshot.total_claims_processed = 0]
    /\ UNCHANGED <<state, pc, result, executed, history, clock, threads>>

\* the caller clears the histogram of the dict it was given
CallerClearsHistogram ==
    /\ "snapshot" \in DOMAIN heap
    /\ heap[heap.snapshot.retry_statistics] # EmptyDict
    /\ heap' = [heap EXCEPT ![heap.snapshot.retry_statistics] = EmptyDict]
    /\ UNCHANGED <<state, pc, result, executed, history, clock, threads>>

CallerStep ==
    \/ CallerResetsCounter
    \/ CallerClearsHistogram

NextRuns ==
    \/ IntakeStep
    \/ FastTrackStep
    \/ ParallelStep
    \/ FinalRoutingStep
    \/ RiskStep
    \/ RoutingStep
    \/ Return
    \/ NewClaim
    \/ GetMetrics
    \/ CallerResetsCounter
    \/ CallerClearsHistogram

SpecRuns == InitRuns /\ [][NextRuns]_vars

(***************************************************************************)
(* Concurrent calls of process_claim on executor threads                    *)
(* (claim_routes.py: loop.run_in_executor(None, process_claim, claim_data)) *)
(* against the module-level orchestrator.  A thread holds its own state     *)
(* dict; the threads share `heap` and `clock`.  The statements of           *)
(* update_workflow_metrics are not atomic: a counter is read into `local`   *)
(* by one step and written back by another.  The processors that raise in   *)
(* a run are an input of the run.                                           *)
(***************************************************************************)
DEFAULT_MAX_RETRIES == 3

\* two runs at a time
ThreadIds == {1, 2}

Processors == {"intake", "risk", "routing"}

ThreadFaultSets == {{}} \cup { {p} : p \in Processors }

\* the claim thread t processes: the claims of the threads are distinct
ThreadClaim(t, claim_data) == [claim_data EXCEPT !.claim_id = "CLM-" \o ToString(t)]

InitThreads ==
    /\ clock = 0
    /\ \E input \in [ThreadIds -> RunClaimInputs \X ThreadFaultSets] :
           threads = [t \in ThreadIds |->
               [state |-> initialize_workflow_state(
                              ThreadClaim(t, input[t][1]), DEFAULT_MAX_RETRIES, clock),
                pc |-> "intake",
                result |-> NoResult,
                claim_data |-> ThreadClaim(t, input[t][1]),
                faults |-> input[t][2],
                local |-> 0,
                updates |-> 0]]
    /\ heap = InitialHeap
    /\ state = EmptyDict
    /\ pc = "idle"
    /\ result = NoResult
    /\ executed = <<>>
    /\ history = <<>>

OnlyThreads == UNCHANGED <<state, pc, result, executed, history, clock, heap>>

T_Intake ==
    \E t \in ThreadIds :
        /\ threads[t].pc = "intake"
        /\ LET st == intake_node(threads[t].state, "intake" \in threads[t].faults)
           IN  threads' = [threads EXCEPT ![t].state = st, ![t].pc = IntakeEdge(st)]
        /\ OnlyThreads

T_FastTrack ==
    \E t \in ThreadIds :
        /\ threads[t].pc = "fast_track"
        /\ threads' = [threads EXCEPT ![t].state = fast_track_node(@),
                                      ![t].pc = Edge(@)]
        /\ OnlyThreads

T_Parallel ==
    \E t \in ThreadIds :
        /\ threads[t].pc = "parallel_processing"
        /\ threads' = [threads EXCEPT
               ![t].state = parallel_processing_node(
                                @, threads[t].faults \cap {"risk", "routing"} # {}),
               ![t].pc = Edge(@)]
        /\ OnlyThreads

T_FinalRouting ==
    \E t \in ThreadIds :
        /\ threads[t].pc = "final_routing"
        /\ IF "routing" \in threads[t].faults
           THEN threads' = [threads EXCEPT ![t].result = ExceptionResult,
                                           ![t].pc = "returned"]
           ELSE threads' = [threads EXCEPT ![t].state = final_routing_node(@),
                                           ![t].pc = Edge(@)]
        /\ OnlyThreads

T_Risk ==
    \E t \in ThreadIds :
        /\ threads[t].pc = "risk"
        /\ threads' = [threads EXCEPT
               ![t].state = risk_node(@, "risk" \in threads[t].faults),
               ![t].pc = Edge(@)]
        /\ OnlyThreads

\* routing_node up to the call of update_workflow_metrics
T_Routing ==
    \E t \in ThreadIds :
        /\ threads[t].pc = "routing"
        /\ IF "routing" \in threads[t].faults
           THEN /\ threads' = [threads EXCEPT
                       ![t].state = routing_node(@, TRUE, clock),
                       ![t].pc = Edge(@)]
                /\ UNCHANGED clock
           ELSE \E elapsed \in 0..MaxElapsed :
                    /\ clock' = clock + elapsed
                    /\ threads' = [threads EXCEPT
                           ![t].state = routing_node(@, FALSE, clock'),
                           ![t].pc = "metrics_total_load"]
        /\ UNCHANGED <<state, pc, result, executed, history, heap>>

\* self.workflow_metrics["total_claims_processed"] += 1: the read
T_LoadTotal ==
    \E t \in ThreadIds :
        /\ threads[t].pc = "metrics_total_load"
        /\ threads' = [threads EXCEPT
               ![t].local = heap.workflow_metrics.total_claims_processed,
               ![t].pc = "metrics_total_store"]
        /\ OnlyThreads

\* self.workflow_metrics["total_claims_processed"] += 1: the write
T_StoreTotal ==
    \E t \in ThreadIds :
        /\ threads[t].pc = "metrics_total_store"
        /\ heap' = [heap EXCEPT
               !.workflow_metrics.total_claims_processed = threads[t].local + 1]
        /\ threads' = [threads EXCEPT ![t].pc = "metrics_outcome_load"]
        /\ UNCHANGED <<state, pc, result, executed, history, clock>>

OutcomeCounter(st) ==
    IF st.workflow_status = "completed" THEN "successful_claims" ELSE "failed_claims"

\* successful_claims += 1 or failed_claims += 1: the read
T_LoadOutcome ==
    \E t \in ThreadIds :
        /\ threads[t].pc = "metrics_outcome_load"
        /\ threads' = [threads EXCEPT
               ![t].local = heap.workflow_metrics[OutcomeCounter(threads[t].state)],
               ![t].pc = "metrics_outcome_store"]
        /\ OnlyThreads

\* successful_claims += 1 or failed_claims += 1: the write
T_StoreOutcome ==
    \E t \in ThreadIds :
        /\ threads[t].pc = "metrics_outcome_store"
        /\ heap' = [heap EXCEPT
               !.workflow_metrics[OutcomeCounter(threads[t].state)] = threads[t].local + 1]
        /\ threads' = [threads EXCEPT ![t].pc = "metrics_rest"]
        /\ UNCHANGED <<state, pc, result, executed, history, clock>>

\* the average and the retry statistics; routing_node then returns
T_MetricsRest ==
    \E t \in ThreadIds :
        /\ threads[t].pc = "metrics_rest"
        /\ LET st == threads[t].state
               m == heap.workflow_metrics
               m3 == [m EXCEPT !.average_processing_time =
                                   AverageAfter(@, m.total_claims_processed,
                                                st.total_processing_time)]
               stats == heap[m.retry_statistics]
           IN  heap' = IF st.retry_count > 0
                       THEN [heap EXCEPT
                                !.workflow_metrics = m3,
                                ![m.retry_statistics] =
                                    DictSet(stats, st.retry_count,
                                            DictGet(stats, st.retry_count, 0) + 1)]
                       ELSE [heap EXCEPT !.workflow_metrics = m3]
        /\ threads' = [threads EXCEPT ![t].pc = Edge("routing"),
                                      ![t].updates = @ + 1]
        /\ UNCHANGED <<state, pc, result, executed, history, clock>>

T_Return ==
    \E t \in ThreadIds :
        /\ threads[t].pc = "END"
        /\ LET st == log_workflow_event(
                         threads[t].state, "workflow_completed", "orchestrator",
                         "Final status: " \o threads[t].state.workflow_status)
           IN  threads' = [threads EXCEPT ![t].state = st,
                                          ![t].result = st,
                                          ![t].pc = "returned"]
        /\ OnlyThreads

NextThreads ==
    \/ T_Intake
    \/ T_FastTrack
    \/ T_Parallel
    \/ T_FinalRouting
    \/ T_Risk
    \/ T_Routing
    \/ T_LoadTotal
    \/ T_StoreTotal
    \/ T_LoadOutcome
    \/ T_StoreOutcome
    \/ T_MetricsRest
    \/ T_Return

SpecThreads == InitThreads /\ [][NextThreads]_vars

\* the record process_claim returns for claim_data when it runs alone on a
\* new orchestrator, the processors of `faults` raising
SoloResult(claim_data, faults, max_retries, start, end) ==
    LET s0 == initialize_workflow_state(claim_data, max_retries, start)
        s1 == intake_node(s0, "intake" \in faults)
        node == IntakeEdge(s1)
        final ==
            CASE node = "fast_track" -> fast_track_node(s1)
              [] node = "parallel_processing" ->
                     final_routing_node(
                         parallel_processing_node(s1, faults \cap {"risk", "routing"} # {}))
              [] node = "risk" ->
                     routing_node(risk_node(s1, "risk" \in faults),
                                  "routing" \in faults, end)
    IN  IF node = "parallel_processing" /\ "routing" \in faults
        THEN ExceptionResult
        ELSE log_workflow_event(final, "workflow_completed", "orchestrator",
                                "Final status: " \o final.workflow_status)

(***************************************************************************)
(* Calls of the stage processors on their own: `state` is the dict handed   *)
(* to process(), `result` the dict it returns.                              *)
(***************************************************************************)
Idle ==
    /\ executed = <<>>
    /\ history = <<>>
    /\ clock = 0
    /\ heap = InitialHeap
    /\ threads = <<>>

RoutingClaims ==
    [claim_id : {"CLM-1"},
     type : {"auto_glass", "auto_collision", "auto_theft", "flood",
             "liability", "medical_payment"},
     amount : {400, 9999, 10000, 49999, 50000},
     injuries_reported : BOOLEAN]

RoutingInputs ==
    [claim : RoutingClaims,
     risk_level : {"LOW", "MEDIUM", "HIGH"},
     risk_reasons : {<<>>},
     validation_errors : {<<>>, <<"missing_location">>}]

InitRouting ==
    /\ state \in RoutingInputs
    /\ pc = "routing_agent"
    /\ result = NoResult
    /\ Idle

\* RoutingAgent().process(state)
RoutingCall ==
    /\ pc = "routing_agent"
    /\ result' = RoutingAgent_process(state)
    /\ pc' = "done"
    /\ UNCHANGED <<state, executed, history, clock, heap, threads>>

SpecRouting == InitRouting /\ [][RoutingCall]_vars

RiskClaims ==
    [claim_id : {"CLM-1"},
     type : {"auto_collision", "auto_theft", "liability"},
     date : {<<80>>, <<90>>},
     amount : {1, 50, 400, 10000, 12000, 25001, 60000},
     description : {"Vehicle damaged", "Hit and run in parking lot"},
     incident_location : InputLocations,
     police_report : InputPoliceReports,
     timestamp_submitted : {[day |-> 91, hour |-> 7], [day |-> 91, hour |-> 23]},
     customer_tenure_days : InputTenures,
     previous_claims_count : {0, 3, 5}]

RiskInputs ==
    [claim : RiskClaims,
     validation_errors : {<<>>, <<"missing_location">>}]

InitRisk ==
    /\ state \in RiskInputs
    /\ pc = "risk_agent"
    /\ result = NoResult
    /\ Idle

\* RiskAssessmentAgent().process(state) returns
RiskCall ==
    /\ pc = "risk_agent"
    /\ ~RiskRaises(state.claim)
    /\ result' = RiskAssessmentAgent_process(state.claim, state.validation_errors)
    /\ pc' = "done"
    /\ UNCHANGED <<state, executed, history, clock, heap, threads>>

\* RiskAssessmentAgent().process(state) raises TypeError
RiskCallRaises ==
    /\ pc = "risk_agent"
    /\ RiskRaises(state.claim)
    /\ result' = [error |-> ErrText]
    /\ pc' = "raised"
    /\ UNCHANGED <<state, executed, history, clock, heap, threads>>

NextRisk ==
    \/ RiskCall
    \/ RiskCallRaises

SpecRisk == InitRisk /\ [][NextRisk]_vars

(***************************************************************************)
(* Observations used by the properties                                      *)
(***************************************************************************)
Returned == pc = "returned"

LastEntry(log) == log[Len(log)]

\* the entries appended to the workflow log by the step
NewEntries == { i \in DOMAIN state'.workflow_log : i > Len(state.workflow_log) }

\* the step called handle_agent_error
AgentErrorStep ==
    \E i \in NewEntries : state'.workflow_log[i].event = "agent_error"

HasEvent(log, event, agent) ==
    \E i \in DOMAIN log : log[i].event = event /\ log[i].agent = agent

\* the retry_initiated entries of the log that name agent_name
RetryEntriesFor(log, agent_name) ==
    { i \in DOMAIN log :
        /\ log[i].event = "retry_initiated"
        /\ \E n \in 1..(state.max_retries + 1) :
               log[i].details = RetryDetails(n, state.max_retries, agent_name) }

FastTrackCriteria(claim) ==
    /\ claim.type \in {"auto_glass", "windshield"}
    /\ claim.amount < 1000
    /\ ~claim.injuries_reported

\* the run entered the fast_track node
FastTrackTaken ==
    \/ pc = "fast_track"
    \/ state.risk_reasons = <<"Fast-track processing - low complexity">>

\* the intake step completed, so the classifier has run
Classified == state.agent_statuses["intake"] = "completed"

(***************************************************************************)
(* C1: the record process_claim returns has workflow_status completed or    *)
(* failed, never initiated, in_progress or retry_pending.                   *)
(***************************************************************************)
C1_ReturnsTerminal ==
    Returned => result.workflow_status \in {"completed", "failed"}

(***************************************************************************)
(* C2: when a stage fails and a retry is granted (retry_count is            *)
(* incremented), the stage is marked retrying, workflow_status becomes      *)
(* retry_pending and the node executed next is the same node again.         *)
(***************************************************************************)
C2_RetryReinvokesSameStage ==
    [][ (AgentErrorStep /\ state.retry_count < state.max_retries)
        => /\ state'.retry_count = state.retry_count + 1
           /\ \E a \in DOMAIN state'.agent_statuses :
                  state'.agent_statuses[a] = "retrying"
           /\ state'.workflow_status = "retry_pending"
           /\ pc' = pc ]_vars

(***************************************************************************)
(* C3: when a stage fails while retry_count >= max_retries,                 *)
(* handle_agent_error sets workflow_status to failed, stores a non-empty    *)
(* error, appends a workflow_failed log entry and leaves retry_count as is. *)
(***************************************************************************)
C3_ExhaustionFails ==
    [][ (AgentErrorStep /\ state.retry_count >= state.max_retries)
        => /\ state'.workflow_status = "failed"
           /\ Truthy(state'.error)
           /\ LastEntry(state'.workflow_log).event = "workflow_failed"
           /\ state'.retry_count = state.retry_count ]_vars

C3_Witness ==
    /\ state.workflow_status = "failed"
    /\ state.max_retries > 0
    /\ state.retry_count = state.max_retries
    /\ LastEntry(state.workflow_log).event = "workflow_failed"

(***************************************************************************)
(* C4: once workflow_status is failed (retries exhausted), no node of the   *)
(* graph runs and no stage processor is invoked again.                      *)
(***************************************************************************)
C4_NoNodeAfterFailed ==
    [][ state.workflow_status = "failed" => ~NodeStep ]_vars

(***************************************************************************)
(* C5: completed and failed are absorbing: once workflow_status has one of  *)
(* these values no later step of the run gives it another value.            *)
(***************************************************************************)
C5_TerminalAbsorbing ==
    [][ state.workflow_status \in {"completed", "failed"}
        => state'.workflow_status = state.workflow_status ]_vars

(***************************************************************************)
(* C6: when the intake processor fails on every invocation and              *)
(* max_retries = N, the run ends with exactly N retry_initiated entries for *)
(* intake in the log, workflow_status failed and a non-empty error.         *)
(***************************************************************************)
C6_AlwaysFailingStage ==
    (Returned /\ HasEvent(state.workflow_log, "agent_error", "intake"))
    => /\ Cardinality(RetryEntriesFor(state.workflow_log, "intake")) = state.max_retries
       /\ result.workflow_status = "failed"
       /\ Truthy(result.error)

(***************************************************************************)
(* C7: in every state of a run 0 <= retry_count <= max_retries; max_retries *)
(* never changes and retry_count never decreases.                           *)
(***************************************************************************)
C7_RetryCountBounded ==
    /\ [](0 <= state.retry_count /\ state.retry_count <= state.max_retries)
    /\ [][ /\ state'.max_retries = state.max_retries
           /\ state'.retry_count >= state.retry_count ]_vars

\* the last retry allowed has been granted
C7_Witness ==
    /\ state.max_retries > 1
    /\ state.retry_count = state.max_retries
    /\ state.workflow_status = "retry_pending"

(***************************************************************************)
(* C8: every claim that takes the fast_track path ends with workflow_status *)
(* completed, risk_level LOW, priority low and adjuster_tier standard.      *)
(***************************************************************************)
C8_FastTrackCompletes ==
    (Returned /\ state.processing_mode = "fast_track")
    => /\ result.workflow_status = "completed"
       /\ result.risk_level = "LOW"
       /\ result.priority = "low"
       /\ result.adjuster_tier = "standard"

(***************************************************************************)
(* C9: once intake has classified the claim, the fast_track path is taken   *)
(* if and only if the type is glass-only, amount < 1000 and no injuries are *)
(* reported, whatever other_party_involved is; it is never taken without    *)
(* classification.                                                          *)
(***************************************************************************)
C9_FastTrackIff ==
    /\ Classified =>
          /\ (state.processing_mode = "fast_track") <=> FastTrackCriteria(state)
          /\ FastTrackTaken <=> FastTrackCriteria(state)
    /\ FastTrackTaken => Classified

C9_Witness ==
    /\ pc = "fast_track"
    /\ state.other_party_involved
    /\ state.processing_mode = "fast_track"

(***************************************************************************)
(* C10: a classified claim that does not meet the fast-track criteria is    *)
(* complex iff amount > 25000, or injuries are reported, or another party   *)
(* is involved, or its type is a liability or medical type; otherwise it is *)
(* standard.  The medical types of CLAIM_TYPES are medical and              *)
(* medical_payment.                                                         *)
(***************************************************************************)
SensitiveTypes == {"liability", "medical", "medical_payment"}

ComplexCriteria(claim) ==
    \/ claim.amount > 25000
    \/ claim.injuries_reported
    \/ claim.other_party_involved
    \/ claim.type \in SensitiveTypes

C10_ComplexIff ==
    (Classified /\ ~FastTrackCriteria(state))
    => /\ (state.processing_mode = "complex") <=> ComplexCriteria(state)
       /\ (state.processing_mode = "standard") <=> ~ComplexCriteria(state)

(***************************************************************************)
(* C11: processing_mode is written at most once per run, by the intake      *)
(* step, and never changes afterwards; the nodes run after intake are       *)
(* exactly those of the path of the mode: fast_track; parallel_processing   *)
(* then final_routing; risk then routing.                                   *)
(***************************************************************************)
PathNodes(mode) ==
    CASE mode = "fast_track" -> <<"fast_track">>
      [] mode = "standard" -> <<"parallel_processing", "final_routing">>
      [] mode = "complex" -> <<"risk", "routing">>

IsPrefix(s, t) == Len(s) <= Len(t) /\ \A i \in DOMAIN s : s[i] = t[i]

C11_ModeFixesPath ==
    /\ [][ /\ state.processing_mode # None
              => state'.processing_mode = state.processing_mode
          /\ state'.processing_mode # state.processing_mode => pc = "intake" ]_vars
    /\ [](state.processing_mode # None
           => /\ IsPrefix(executed, <<"intake">> \o PathNodes(state.processing_mode))
              /\ Returned
                 => executed = <<"intake">> \o PathNodes(state.processing_mode))

C11_Witness ==
    /\ Returned
    /\ state.processing_mode = "standard"
    /\ executed = <<"intake", "parallel_processing", "final_routing">>

(***************************************************************************)
(* C12: on the standard path with no stage failure the run ends with        *)
(* workflow_status completed, the agent_statuses of intake, risk_assessment *)
(* and routing all completed, and parallel_results holding the risk result  *)
(* and the preliminary routing result.                                      *)
(***************************************************************************)
\* the run returned the final state and no stage reported an error
EndedWithoutFailure ==
    /\ Returned
    /\ result = state
    /\ \A i \in DOMAIN state.workflow_log : state.workflow_log[i].event # "agent_error"

C12_StandardCompletes ==
    (EndedWithoutFailure /\ state.processing_mode = "standard")
    => /\ result.workflow_status = "completed"
       /\ \A a \in {"intake", "risk_assessment", "routing"} :
              result.agent_statuses[a] = "completed"
       /\ DOMAIN result.parallel_results = {"risk", "preliminary_routing"}

(***************************************************************************)
(* C13: on the standard path, once the final routing pass has run, priority *)
(* and adjuster_tier are those of the preliminary routing result stored in  *)
(* parallel_results.                                                        *)
(***************************************************************************)
FinalRoutingDone ==
    /\ pc \in {"END", "returned"}
    /\ result # ExceptionResult
    /\ executed # <<>>
    /\ executed[Len(executed)] = "final_routing"

C13_FinalMatchesPreliminary ==
    (FinalRoutingDone /\ "preliminary_routing" \in DOMAIN state.parallel_results)
    => /\ state.priority = state.parallel_results.preliminary_routing.priority
       /\ state.adjuster_tier = state.parallel_results.preliminary_routing.adjuster_tier

\* a final pass whose decision rests on the risk level
C13_Witness ==
    /\ FinalRoutingDone
    /\ "preliminary_routing" \in DOMAIN state.parallel_results
    /\ state.parallel_results.risk.risk_level = "HIGH"
    /\ state.priority = "urgent"
    /\ state.adjuster_tier = "fraud_specialist"

(***************************************************************************)
(* C14: on the complex path with no stage failure the risk node runs once   *)
(* and completes before the routing node runs once, the routing decision is *)
(* the one for the risk level the risk node reported, and workflow_status   *)
(* is completed only once routing has run.                                  *)
(***************************************************************************)
EventIndexes(log, event, agent) ==
    { i \in DOMAIN log : log[i].event = event /\ log[i].agent = agent }

C14_ComplexSequence ==
    /\ (state.processing_mode = "complex" /\ state.workflow_status = "completed")
       => executed = <<"intake", "risk", "routing">>
    /\ (EndedWithoutFailure /\ state.processing_mode = "complex")
       => LET log == result.workflow_log
              risk_started == EventIndexes(log, "agent_started", "risk_assessment")
              risk_completed == EventIndexes(log, "agent_completed", "risk_assessment")
              routing_started == EventIndexes(log, "agent_started", "routing")
              decision == RoutingAgent_process(RoutingInput(result))
          IN  /\ executed = <<"intake", "risk", "routing">>
              /\ Cardinality(risk_started) = 1
              /\ Cardinality(risk_completed) = 1
              /\ Cardinality(routing_started) = 1
              /\ \A i \in risk_completed, j \in routing_started :
                     /\ i < j
                     /\ log[i].details = "Risk level: " \o result.risk_level
              /\ result.risk_level \in {"LOW", "MEDIUM", "HIGH"}
              /\ result.priority = decision.priority
              /\ result.adjuster_tier = decision.adjuster_tier
              /\ result.workflow_status = "completed"

C14_Witness ==
    /\ EndedWithoutFailure
    /\ state.processing_mode = "complex"
    /\ result.risk_level = "HIGH"
    /\ result.workflow_status = "completed"

(***************************************************************************)
(* C15: every run that ends normally, on any path, returns a record with    *)
(* current_agent completed, next_agent none, processing_end_time >=         *)
(* processing_start_time and total_processing_time = processing_end_time -  *)
(* processing_start_time >= 0.                                              *)
(***************************************************************************)
C15_FinalRecordClosed ==
    EndedWithoutFailure
    => /\ result.current_agent = "completed"
       /\ result.next_agent = "none"
       /\ result.processing_end_time >= result.processing_start_time
       /\ result.total_processing_time
              = result.processing_end_time - result.processing_start_time
       /\ result.total_processing_time >= 0

(***************************************************************************)
(* C16: the metrics are updated exactly once for every run that ends: after *)
(* any sequence of process_claim calls total_claims_processed is the number *)
(* of runs that ended, successful_claims the number that ended completed    *)
(* and failed_claims the number that ended failed.                          *)
(***************************************************************************)
CountOf(seq, value) == Cardinality({ i \in DOMAIN seq : seq[i] = value })

C16_MetricsCountRuns ==
    Returned
    => /\ heap.workflow_metrics.total_claims_processed = Len(history)
       /\ heap.workflow_metrics.successful_claims = CountOf(history, "completed")
       /\ heap.workflow_metrics.failed_claims = CountOf(history, "failed")

(***************************************************************************)
(* C17: every update of the metrics leaves average_processing_time equal to *)
(* (old_avg * (n - 1) + new_value) / n, n being the new                     *)
(* total_claims_processed and new_value the total_processing_time of the    *)
(* run, also when new_value is 0.                                           *)
(***************************************************************************)
MetricsUpdated ==
    heap'.workflow_metrics.total_claims_processed
        # heap.workflow_metrics.total_claims_processed

C17_IncrementalMean ==
    [][ MetricsUpdated
        => heap'.workflow_metrics.average_processing_time
              = IncrementalMean(heap.workflow_metrics.average_processing_time,
                                heap'.workflow_metrics.total_claims_processed,
                                state'.total_processing_time) ]_vars

(***************************************************************************)
(* C19: no modification a caller makes to the dict get_workflow_metrics     *)
(* returned changes the metrics of the orchestrator, its retry_statistics   *)
(* histogram included.                                                      *)
(***************************************************************************)
\* the metrics the orchestrator holds, nested dicts by value
InternalMetrics(h) ==
    [h.workflow_metrics EXCEPT !.retry_statistics = h[h.workflow_metrics.retry_statistics]]

C19_SnapshotIsolated ==
    [][ CallerStep => InternalMetrics(heap') = InternalMetrics(heap) ]_vars

(***************************************************************************)
(* C18: the updates of the metrics by concurrent runs are serialized: no    *)
(* increment is lost, and once N runs have updated the metrics              *)
(* total_claims_processed = N.                                              *)
(***************************************************************************)
InUpdate(t) ==
    threads[t].pc \in {"metrics_total_load", "metrics_total_store",
                       "metrics_outcome_load", "metrics_outcome_store", "metrics_rest"}

C18_NoLostIncrement ==
    (\A t \in DOMAIN threads : ~InUpdate(t))
    => heap.workflow_metrics.total_claims_processed
          = Cardinality({ t \in DOMAIN threads : threads[t].updates = 1 })

(***************************************************************************)
(* C20: concurrent runs on distinct claims do not interfere: whatever the   *)
(* interleaving, the record a run returns is, timestamps apart, the record  *)
(* the same claim yields when it is processed alone.                        *)
(***************************************************************************)
TimeFields == {"processing_start_time", "processing_end_time", "total_processing_time"}

WithoutTimes(record) == [k \in DOMAIN record \ TimeFields |-> record[k]]

C20_RunsIndependent ==
    \A t \in DOMAIN threads :
        threads[t].pc = "returned"
        => WithoutTimes(threads[t].result)
              = WithoutTimes(SoloResult(threads[t].claim_data, threads[t].faults,
                                        DEFAULT_MAX_RETRIES, 0, 0))

\* two runs have returned whose metrics updates overlapped
C20_Witness ==
    /\ \A t \in DOMAIN threads : threads[t].pc = "returned"
    /\ \E t, u \in DOMAIN threads :
           /\ t # u
           /\ threads[t].updates = 1
           /\ threads[u].updates = 1
           /\ threads[t].state.retry_count # threads[u].state.retry_count
    /\ heap.workflow_metrics.total_claims_processed = 1

(***************************************************************************)
(* C21: validation errors of intake are not fatal.  For every claim on      *)
(* which intake produces validation errors, the intake step can complete:   *)
(* it stores the errors, leaves workflow_status in_progress and retry_count *)
(* as it was, and hands over to the first node of the path of the mode; a   *)
(* run of such a claim in which no stage fails runs every node of the path. *)
(***************************************************************************)
IntakeCompletesWithErrors ==
    /\ IntakeStep
    /\ state'.agent_statuses["intake"] = "completed"
    /\ state'.validation_errors = IntakeAgent_process(ClaimOf(state)).validation_errors
    /\ state'.workflow_status = "in_progress"
    /\ state'.retry_count = state.retry_count
    /\ pc' = PathNodes(state'.processing_mode)[1]

C21_ValidationNotFatal ==
    /\ (pc = "intake" /\ ~IntakeAgent_process(ClaimOf(state)).is_valid)
       => ENABLED IntakeCompletesWithErrors
    /\ (EndedWithoutFailure /\ state.validation_errors # <<>>)
       => /\ result.workflow_status # "failed"
          /\ result.retry_count = 0
          /\ executed = <<"intake">> \o PathNodes(state.processing_mode)

\* a claim without incident_location went through risk and routing
C21_Witness ==
    /\ EndedWithoutFailure
    /\ state.incident_location = None
    /\ state.validation_errors = <<"missing_location">>
    /\ executed = <<"intake", "risk", "routing">>

(***************************************************************************)
(* C22: a failure of a stage processor is caught in the node that invoked   *)
(* the processor and handed to the retry policy; no node step ends the run  *)
(* with the failure propagating out of the graph.                           *)
(***************************************************************************)
C22_FailureCaughtInNode ==
    [][ NodeStep => /\ pc' # "returned"
                    /\ result' = NoResult ]_vars

(***************************************************************************)
(* C23: workflow_log and inter_agent_communication are append-only from     *)
(* initialize_workflow_state to the record process_claim returns: at every  *)
(* step the previous sequence is a prefix of the new one, and the returned  *)
(* record holds both sequences whole, also when a stage failed.             *)
(***************************************************************************)
C23_LogsAppendOnly ==
    /\ [][ /\ IsPrefix(state.workflow_log, state'.workflow_log)
           /\ IsPrefix(state.inter_agent_communication,
                       state'.inter_agent_communication) ]_vars
    /\ [](Returned
           => /\ {"workflow_log", "inter_agent_communication"} \subseteq DOMAIN result
              /\ IsPrefix(state.workflow_log, result.workflow_log)
              /\ IsPrefix(state.inter_agent_communication,
                          result.inter_agent_communication))

(***************************************************************************)
(* C24: every write to agent_statuses[stage] follows pending -> processing  *)
(* -> (completed | failed -> retrying -> processing ... | failed): across a *)
(* step the status of a stage moves along these writes only, and a status   *)
(* is written only for a stage that started pending.                        *)
(***************************************************************************)
StatusWrites(status) ==
    CASE status = "pending" -> {"processing"}
      [] status = "processing" -> {"completed", "failed"}
      [] status = "failed" -> {"retrying"}
      [] status = "retrying" -> {"processing"}
      [] status = "completed" -> {}

RECURSIVE StatusesAfter(_)
StatusesAfter(statuses) ==
    LET more == statuses \cup UNION { StatusWrites(x) : x \in statuses }
    IN  IF more = statuses THEN statuses ELSE StatusesAfter(more)

C24_StatusSequence ==
    [][ \A a \in DOMAIN state'.agent_statuses :
            /\ a \in DOMAIN state.agent_statuses
            /\ state'.agent_statuses[a] \in StatusesAfter({state.agent_statuses[a]}) ]_vars

(***************************************************************************)
(* C25: whenever agent_statuses[stage] is completed, for stage intake,      *)
(* risk_assessment or routing, the workflow log holds an agent_started      *)
(* entry of that stage.                                                     *)
(***************************************************************************)
C25_CompletedWasStarted ==
    \A stage \in {"intake", "risk_assessment", "routing"} :
        state.agent_statuses[stage] = "completed"
        => HasEvent(state.workflow_log, "agent_started", stage)

(***************************************************************************)
(* C26: on the fast_track path the risk and routing processors are not      *)
(* invoked: only the intake and fast_track nodes run, the statuses of       *)
(* risk_assessment and routing stay pending and the log holds no start or   *)
(* completion entry of either stage.                                        *)
(***************************************************************************)
C26_FastTrackBypasses ==
    state.processing_mode = "fast_track"
    => /\ \A i \in DOMAIN executed : executed[i] \in {"intake", "fast_track"}
       /\ \A stage \in {"risk_assessment", "routing"} :
              /\ state.agent_statuses[stage] = "pending"
              /\ ~HasEvent(state.workflow_log, "agent_started", stage)
              /\ ~HasEvent(state.workflow_log, "agent_completed", stage)

C26_Witness ==
    /\ Returned
    /\ state.processing_mode = "fast_track"
    /\ executed = <<"intake", "fast_track">>
    /\ result.risk_level = "LOW"

(***************************************************************************)
(* C27: for every claim with injuries_reported, RoutingAgent.process        *)
(* returns priority urgent and adjuster_tier senior, whatever the risk      *)
(* level, amount, claim type and validation errors.                         *)
(***************************************************************************)
C27_InjuriesUrgentSenior ==
    (pc = "done" /\ state.claim.injuries_reported)
    => /\ result.priority = "urgent"
       /\ result.adjuster_tier = "senior"

\* the injury rule wins over the fraud rule, with validation errors present
C27_Witness ==
    /\ pc = "done"
    /\ state.claim.injuries_reported
    /\ state.risk_level = "HIGH"
    /\ state.claim.type = "auto_theft"
    /\ state.validation_errors # <<>>
    /\ result.adjuster_tier = "senior"

(***************************************************************************)
(* C28: in RoutingAgent.process validation errors only raise the priority:  *)
(* the priority returned with validation errors is the one returned for the *)
(* same claim and risk level without them, except that low becomes normal;  *)
(* adjuster_tier is the same.                                               *)
(***************************************************************************)
WithoutErrors(risk_output) == [risk_output EXCEPT !.validation_errors = <<>>]

C28_ErrorsOnlyElevate ==
    (pc = "done" /\ state.validation_errors # <<>>)
    => LET clean == RoutingAgent_process(WithoutErrors(state))
       IN  /\ result.priority = IF clean.priority = "low" THEN "normal" ELSE clean.priority
           /\ result.adjuster_tier = clean.adjuster_tier

C28_Witness ==
    /\ pc = "done"
    /\ state.validation_errors # <<>>
    /\ RoutingAgent_process(WithoutErrors(state)).priority = "low"
    /\ result.priority = "normal"

(***************************************************************************)
(* C29: a claim of a type other than liability, without injuries, with      *)
(* amount > 50000, customer tenure < 30 days and no police report - such as *)
(* {amount 60000, auto_collision, tenure 10} - takes the complex path and,  *)
(* no stage failing, ends with risk_level HIGH, priority urgent and         *)
(* adjuster_tier fraud_specialist or senior.                                *)
(***************************************************************************)
NewCustomerHighValue(claim) ==
    /\ claim.type # "liability"
    /\ ~claim.injuries_reported
    /\ claim.amount > 50000
    /\ claim.customer_tenure_days # NoNumber
    /\ claim.customer_tenure_days[1] < 30
    /\ ~Truthy(claim.police_report)

C29_HighValueNewCustomer ==
    /\ (Classified /\ NewCustomerHighValue(state)) => state.processing_mode = "complex"
    /\ (EndedWithoutFailure /\ NewCustomerHighValue(state))
       => /\ executed = <<"intake", "risk", "routing">>
          /\ result.risk_level = "HIGH"
          /\ result.priority = "urgent"
          /\ result.adjuster_tier \in {"fraud_specialist", "senior"}

C29_Witness ==
    /\ EndedWithoutFailure
    /\ state.type = "auto_collision"
    /\ state.amount = 60000
    /\ state.customer_tenure_days = <<10>>
    /\ state.police_report = None
    /\ ~state.injuries_reported
    /\ result.risk_level = "HIGH"
    /\ result.adjuster_tier = "fraud_specialist"

(***************************************************************************)
(* C30: whenever RiskAssessmentAgent.process returns, risk_score is an      *)
(* integer in 1..10 and risk_level is LOW exactly when risk_score <= 3,     *)
(* MEDIUM exactly when 4 <= risk_score <= 6 and HIGH exactly when           *)
(* risk_score >= 7.                                                         *)
(***************************************************************************)
C30_ScoreBands ==
    pc = "done"
    => /\ result.risk_score \in 1..10
       /\ (result.risk_level = "LOW") <=> (result.risk_score <= 3)
       /\ (result.risk_level = "MEDIUM")
             <=> (4 <= result.risk_score /\ result.risk_score <= 6)
       /\ (result.risk_level = "HIGH") <=> (result.risk_score >= 7)

\* the rules add up to more than 10 and the score is clamped
C30_Witness ==
    /\ pc = "done"
    /\ result.risk_score = 10
    /\ Len(result.risk_reasons) >= 6
    /\ result.risk_level = "HIGH"

(***************************************************************************)
(* Repeated calls of RiskAssessmentAgent.process on one agent object.       *)
(* `history` lists the calls that returned: the dict passed and the dict    *)
(* returned, whose assessment_timestamp is the time of the call.            *)
(***************************************************************************)
MaxCalls == 3

RiskCallInputs ==
    [claim : [claim_id : {"CLM-1"},
              type : {"auto_collision"},
              date : {<<80>>, <<93>>},
              amount : {400, 60000},
              description : {"Vehicle damaged"},
              incident_location : {"789 Elm St"},
              police_report : {None},
              timestamp_submitted : {[day |-> 94, hour |-> 7]},
              customer_tenure_days : {NoNumber, <<10>>},
              previous_claims_count : {0}],
     validation_errors : {<<>>}]

\* the dict returned by process, with "assessment_timestamp": datetime.now()
RiskAssessmentAgent_process_at(intake_output, now) ==
    [assessment_timestamp |-> now]
    @@ RiskAssessmentAgent_process(intake_output.claim,
                                   intake_output.validation_errors)

InitRiskCalls ==
    /\ state = EmptyDict
    /\ pc = "risk_calls"
    /\ result = NoResult
    /\ Idle

\* agent.process(intake_output) returns
RiskInvoke ==
    /\ pc = "risk_calls"
    /\ Len(history) < MaxCalls
    /\ \E inp \in RiskCallInputs, elapsed \in 0..MaxElapsed :
          /\ ~RiskRaises(inp.claim)
          /\ state' = inp
          /\ result' = RiskAssessmentAgent_process_at(inp, clock)
          /\ history' = Append(history, [input |-> inp, output |-> result'])
          /\ clock' = clock + elapsed
    /\ UNCHANGED <<pc, executed, heap, threads>>

\* agent.process(intake_output) raises TypeError
RiskInvokeRaises ==
    /\ pc = "risk_calls"
    /\ Len(history) < MaxCalls
    /\ \E inp \in RiskCallInputs :
          /\ RiskRaises(inp.claim)
          /\ state' = inp
    /\ result' = [error |-> ErrText]
    /\ UNCHANGED <<pc, executed, history, clock, heap, threads>>

NextRiskCalls ==
    \/ RiskInvoke
    \/ RiskInvokeRaises

SpecRiskCalls == InitRiskCalls /\ [][NextRiskCalls]_vars

(***************************************************************************)
(* C31: two invocations of RiskAssessmentAgent.process on identical claim   *)
(* state and validation errors return identical risk_score, risk_level and  *)
(* risk_reasons (same reasons, same order), whatever calls were made before *)
(* and whatever the time of the call.                                       *)
(***************************************************************************)
C31_RiskDeterministic ==
    \A i, j \in DOMAIN history :
        history[i].input = history[j].input
        => /\ history[i].output.risk_score = history[j].output.risk_score
           /\ history[i].output.risk_level = history[j].output.risk_level
           /\ history[i].output.risk_reasons = history[j].output.risk_reasons

\* the same dict is assessed at two different times with another claim
\* assessed in between
C31_Witness ==
    /\ Len(history) = 3
    /\ history[1].input = history[3].input
    /\ history[2].input # history[1].input
    /\ history[1].input.claim.date = <<93>>
    /\ history[1].output.assessment_timestamp
          # history[3].output.assessment_timestamp
    /\ history[1].output.risk_reasons = history[3].output.risk_reasons
    /\ history[3].output.risk_score = 10

(***************************************************************************)
(* IntakeAgent.process applied to one claim dict                            *)
(***************************************************************************)
IntakeAmounts == {-5, 0, 1, 400, 1000000, 1000001}

IntakeClaims ==
    [claim_id : {"CLM-1"},
     type : {"auto_collision", "boat", None},
     date : {NoNumber, <<90>>, <<110>>},
     amount : IntakeAmounts,
     description : {"Vehicle damaged"},
     customer_id : {"CUST-1"},
     policy_number : {"POL-1"},
     incident_location : {None, "789 Elm St"},
     police_report : {None},
     injuries_reported : {FALSE},
     other_party_involved : {FALSE},
     timestamp_submitted : {[day |-> 91, hour |-> 7]},
     customer_tenure_days : {<<2000>>},
     previous_claims_count : {0}]

InitIntake ==
    /\ state \in IntakeClaims
    /\ pc = "intake_agent"
    /\ result = NoResult
    /\ Idle

\* IntakeAgent().process(claim)
IntakeCall ==
    /\ pc = "intake_agent"
    /\ result' = IntakeAgent_process(state)
    /\ pc' = "done"
    /\ UNCHANGED <<state, executed, history, clock, heap, threads>>

SpecIntake == InitIntake /\ [][IntakeCall]_vars

\* the validation errors that speak of the amount
AmountErrors ==
    {"invalid_amount_negative", "invalid_amount_format",
     "amount_requires_special_handling", "invalid_amount_zero_or_negative",
     "missing_amount"}

(***************************************************************************)
(* C32: IntakeAgent.process flags every claim whose amount is <= 0          *)
(* (amount exactly 0 included) and every claim whose amount is > 1,000,000  *)
(* with at least one validation error about the amount, flags no amount in  *)
(* (0, 1,000,000] for its value, and is_valid is true exactly when          *)
(* validation_errors is empty.                                              *)
(***************************************************************************)
C32_AmountFlagged ==
    pc = "done"
    => LET flagged == \E i \in DOMAIN result.validation_errors :
                          result.validation_errors[i] \in AmountErrors
       IN  /\ (state.amount <= 0 \/ state.amount > MAX_REASONABLE_AMOUNT)
                 => flagged
           /\ (0 < state.amount /\ state.amount <= MAX_REASONABLE_AMOUNT)
                 => ~flagged
           /\ result.is_valid <=> (result.validation_errors = <<>>)

\* the agent_error entries of the log whose stage ended with status completed
RetriedSuccessfully(st) ==
    { i \in DOMAIN st.workflow_log :
        /\ st.workflow_log[i].event = "agent_error"
        /\ st.workflow_log[i].agent \in DOMAIN st.agent_statuses
        /\ st.agent_statuses[st.workflow_log[i].agent] = "completed" }

(***************************************************************************)
(* C35: whenever the record process_claim returns has workflow_status       *)
(* completed, every stage its path runs has agent status completed,         *)
(* retry_count counts only the failures that were retried successfully,     *)
(* risk_level is LOW, MEDIUM or HIGH and priority and adjuster_tier are     *)
(* defined.                                                                 *)
(***************************************************************************)
C35_CompletedIsClean ==
    (Returned /\ result.workflow_status = "completed")
    => /\ \A a \in {"intake", "risk_assessment", "routing"} :
              result.agent_statuses[a] = "completed"
       /\ result.retry_count = Cardinality(RetriedSuccessfully(result))
       /\ result.risk_level \in {"LOW", "MEDIUM", "HIGH"}
       /\ result.priority # None
       /\ result.adjuster_tier # None

\* the nodes that invoke the risk or the routing processor
ProcessorNodes == {"risk", "routing", "parallel_processing", "final_routing"}

(***************************************************************************)
(* C36: the risk and routing processors are invoked only after              *)
(* agent_statuses[intake] is completed and processing_mode has been set by  *)
(* the classifier: a node that invokes one of them has run only in a run    *)
(* whose intake step completed and set the mode.                            *)
(***************************************************************************)
C36_ProcessorsAfterIntake ==
    (\E i \in DOMAIN executed : executed[i] \in ProcessorNodes)
    => /\ state.agent_statuses["intake"] = "completed"
       /\ state.processing_mode # None

(***************************************************************************)
(* C37: the record process_claim returns holds at most one                  *)
(* workflow_completed entry in workflow_log, and none when its              *)
(* workflow_status is failed, retry_pending or in_progress.                 *)
(***************************************************************************)
C37_CompletedEntryOnlyWhenCompleted ==
    (Returned /\ "workflow_log" \in DOMAIN result)
    => LET n == Cardinality({ i \in DOMAIN result.workflow_log :
                                result.workflow_log[i].event = "workflow_completed" })
       IN  /\ n <= 1
           /\ result.workflow_status # "completed" => n = 0

(***************************************************************************)
(* C38: in every reachable state the key set of agent_statuses is exactly   *)
(* {intake, risk_assessment, routing}.                                      *)
(***************************************************************************)
C38_StatusKeys ==
    DOMAIN state.agent_statuses = {"intake", "risk_assessment", "routing"}

(***************************************************************************)
(* C40: RiskAssessmentAgent.process returns a score, and does not raise,    *)
(* for every claim the submission schema accepts, claims whose              *)
(* customer_tenure_days or police_report is null included.                  *)
(***************************************************************************)
C40_RiskNeverRaises ==
    pc \in {"done", "raised"}
    => /\ pc = "done"
       /\ "risk_score" \in DOMAIN result
       /\ result.risk_score \in 1..10

(***************************************************************************)
(* DocumentationAgent.process (documentation_agent.py).  The language model *)
(* is outside the program: each of its three calls either returns a text or *)
(* raises, and which calls raise is an input.  `state` holds the arguments  *)
(* of the call, `executed` the model calls that raised, `history` the       *)
(* workflow_status of the claim when process was called.                    *)
(***************************************************************************)
LLMCalls == {"summary", "key_points", "documentation"}

\* the content the language model answers with
LLMText == "llm text"

DocumentationClaims ==
    [claim_id : {"CLM-1", "CLM-2"},
     type : {"auto_glass", "liability"},
     amount : {400, 60000},
     workflow_status : {"completed", "in_progress", "failed"}]

\* processing_results is a dict without results (the string {}), or None
DocumentationInputs ==
    [claim_data : DocumentationClaims,
     processing_results : {"{}", None}]

\* processing_results.get(...) raises AttributeError on None
prepare_prompt_data_raises(processing_results) == processing_results = None

generate_summary(claim_data, failed) ==
    IF "summary" \in failed
    THEN "Summary generation failed for claim " \o claim_data.claim_id
    ELSE LLMText

extract_key_points(claim_data, failed) ==
    IF "key_points" \in failed
    THEN [claim_overview |-> "Key points extraction failed for claim "
                             \o claim_data.claim_id,
          key_facts |-> <<>>,
          risk_factors |-> <<>>,
          processing_notes |-> <<>>,
          next_steps |-> <<>>]
    ELSE [claim_overview |-> LLMText]

generate_documentation(claim_data, failed) ==
    IF "documentation" \in failed
    THEN "Documentation generation failed for claim " \o claim_data.claim_id
    ELSE LLMText

DocumentationAgent_process(claim_data, processing_results, failed) ==
    IF prepare_prompt_data_raises(processing_results)
    THEN [agent_type |-> "documentation",
          claim_id |-> claim_data.claim_id,
          summary |-> None,
          key_points |-> None,
          documentation |-> None,
          status |-> "failed",
          error |-> ErrText]
    ELSE [agent_type |-> "documentation",
          claim_id |-> claim_data.claim_id,
          summary |-> generate_summary(claim_data, failed),
          key_points |-> extract_key_points(claim_data, failed),
          documentation |-> generate_documentation(claim_data, failed),
          status |-> "completed"]

InitDocumentation ==
    /\ state \in DocumentationInputs
    /\ pc = "documentation_agent"
    /\ result = NoResult
    /\ executed = <<>>
    /\ history = <<state.claim_data.workflow_status>>
    /\ clock = 0
    /\ heap = InitialHeap
    /\ threads = <<>>

\* the calls of the language model process makes before it returns
LLMCallsMade(processing_results) ==
    IF prepare_prompt_data_raises(processing_results)
    THEN <<>>
    ELSE <<"summary", "key_points", "documentation">>

\* DocumentationAgent.process(claim_data, processing_results)
DocumentationCall ==
    /\ pc = "documentation_agent"
    /\ \E failed \in SUBSET LLMCalls :
          /\ executed' = SelectSeq(LLMCallsMade(state.processing_results),
                                   LAMBDA c : c \in failed)
          /\ result' = DocumentationAgent_process(
                           state.claim_data, state.processing_results,
                           { executed'[i] : i \in DOMAIN executed' })
    /\ pc' = "done"
    /\ UNCHANGED <<state, history, clock, heap, threads>>

SpecDocumentation == InitDocumentation /\ [][DocumentationCall]_vars

\* the placeholder process puts in place of the text of a failed call
IsPlaceholder(res, call) ==
    CASE call = "summary" ->
             res.summary \in {None, "Summary generation failed for claim "
                                    \o res.claim_id}
      [] call = "key_points" ->
             res.key_points.claim_overview
               = "Key points extraction failed for claim " \o res.claim_id
      [] call = "documentation" ->
             res.documentation \in {None, "Documentation generation failed for claim "
                                          \o res.claim_id}

(***************************************************************************)
(* C34: whenever a language-model call fails during                         *)
(* DocumentationAgent.process (summary, key points or documentation), the   *)
(* returned documentation result holds placeholder content for it and has   *)
(* status failed, and the claim's workflow_status is what it was before the *)
(* call.                                                                    *)
(***************************************************************************)
C34_LLMFailureReported ==
    (pc = "done" /\ executed # <<>>)
    => /\ \A i \in DOMAIN executed : IsPlaceholder(result, executed[i])
       /\ result.status = "failed"
       /\ state.claim_data.workflow_status = history[1]

(***************************************************************************)
(* The background task of a submitted claim                                 *)
(* (claim_routes.py: process_claim_workflow_background).  `state` is the    *)
(* claim dict handed over by submit_claim, `result` the record process_claim *)
(* returns, `heap` the committed content of the database: the status of the *)
(* stored claim (absent while no row is committed) and the number of log    *)
(* rows.  A commit of the session may raise; `executed` lists the commits   *)
(* that did.                                                                *)
(***************************************************************************)
ClaimStatus == {"SUBMITTED", "PROCESSING", "COMPLETED", "FAILED"}

EmptyDatabase == [claim_status |-> "absent", log_rows |-> 0]

\* the claim dicts submit_claim hands over: customer_tenure_days is optional
BackgroundClaims ==
    { [c EXCEPT !.customer_tenure_days = t] :
        c \in RunClaimInputs, t \in {<<2000>>, NoNumber} }

InitBackground ==
    /\ state \in BackgroundClaims
    /\ pc = "bg_create"
    /\ result = NoResult
    /\ executed = <<>>
    /\ history = <<>>
    /\ clock = 0
    /\ heap = EmptyDatabase
    /\ threads = <<>>

\* db.add(claim); await db.commit(); await db.refresh(claim)
BgCreate ==
    /\ pc = "bg_create"
    /\ \E fails \in BOOLEAN :
          IF fails
          THEN /\ pc' = "bg_handler"
               /\ executed' = Append(executed, "create")
               /\ UNCHANGED heap
          ELSE /\ pc' = "bg_workflow"
               /\ heap' = [heap EXCEPT !.claim_status = "PROCESSING"]
               /\ UNCHANGED executed
    /\ UNCHANGED <<state, result, history, clock, threads>>

\* result = await loop.run_in_executor(None, process_claim, claim_data)
BgWorkflow ==
    /\ pc = "bg_workflow"
    /\ \E faults \in ThreadFaultSets :
          result' = SoloResult(state, faults, DEFAULT_MAX_RETRIES, clock, clock)
    /\ pc' = "bg_update"
    /\ UNCHANGED <<state, executed, history, clock, heap, threads>>

\* the status the task gives the stored claim for a workflow result
StoredStatusOf(res) ==
    IF res.workflow_status = "completed" THEN "COMPLETED" ELSE "FAILED"

\* claim.status = ...; await db.commit()
BgUpdate ==
    /\ pc = "bg_update"
    /\ \E fails \in BOOLEAN :
          IF fails
          THEN /\ pc' = "bg_handler"
               /\ executed' = Append(executed, "update")
               /\ UNCHANGED heap
          ELSE /\ pc' = "bg_logs"
               /\ heap' = [heap EXCEPT !.claim_status = StoredStatusOf(result)]
               /\ UNCHANGED executed
    /\ UNCHANGED <<state, result, history, clock, threads>>

\* db.add(workflow_log) for every entry of result["workflow_log"];
\* await db.commit()
BgStoreLogs ==
    /\ pc = "bg_logs"
    /\ \E fails \in BOOLEAN :
          IF fails
          THEN /\ pc' = "bg_handler"
               /\ executed' = Append(executed, "logs")
               /\ UNCHANGED heap
          ELSE /\ pc' = "bg_done"
               /\ heap' = [heap EXCEPT !.log_rows =
                              IF "workflow_log" \in DOMAIN result
                              THEN Len(result.workflow_log) ELSE 0]
               /\ UNCHANGED executed
    /\ UNCHANGED <<state, result, history, clock, threads>>

\* except Exception: the claim is looked up and, if it exists, stored as
\* FAILED; a failure of this is passed over
BgHandler ==
    /\ pc = "bg_handler"
    /\ \E fails \in BOOLEAN :
          IF fails
          THEN /\ executed' = Append(executed, "handler")
               /\ UNCHANGED heap
          ELSE /\ heap' = IF heap.claim_status = "absent"
                          THEN heap
                          ELSE [heap EXCEPT !.claim_status = "FAILED"]
               /\ UNCHANGED executed
    /\ pc' = "bg_done"
    /\ UNCHANGED <<state, result, history, clock, threads>>

NextBackground ==
    \/ BgCreate
    \/ BgWorkflow
    \/ BgUpdate
    \/ BgStoreLogs
    \/ BgHandler

SpecBackground == InitBackground /\ [][NextBackground]_vars

\* process_claim was called and returned a record
WorkflowRan == "workflow_status" \in DOMAIN result

(***************************************************************************)
(* C33: a failure of the persistence sink (creating or updating the stored  *)
(* claim, storing log rows) never prevents the workflow of the claim from   *)
(* running, and never changes the outcome the engine produced: when the     *)
(* background task has finished, process_claim has returned a record, and a *)
(* stored claim that is COMPLETED or FAILED is so according to the          *)
(* workflow_status of that record.                                          *)
(***************************************************************************)
C33_SinkFailureHarmless ==
    pc = "bg_done"
    => /\ WorkflowRan
       /\ heap.claim_status \in {"COMPLETED", "FAILED"}
             => heap.claim_status = StoredStatusOf(result)

\* no stage of the run failed
NoStageFailure(res) ==
    /\ "workflow_log" \in DOMAIN res
    /\ \A i \in DOMAIN res.workflow_log : res.workflow_log[i].event # "agent_error"

(***************************************************************************)
(* C39: after the background task of a submitted claim has finished, the    *)
(* stored claim status is COMPLETED if and only if the workflow returned    *)
(* workflow_status completed, and FAILED otherwise; it is never left        *)
(* PROCESSING; and a claim that took the fast_track or standard path        *)
(* without any stage failure is stored as COMPLETED.                        *)
(***************************************************************************)
C39_StoredStatus ==
    pc = "bg_done"
    => /\ heap.claim_status # "PROCESSING"
       /\ (heap.claim_status = "COMPLETED")
             <=> (WorkflowRan /\ result.workflow_status = "completed")
       /\ heap.claim_status # "COMPLETED" => heap.claim_status = "FAILED"
       /\ (/\ WorkflowRan
           /\ NoStageFailure(result)
           /\ result.processing_mode \in {"fast_track", "standard"})
          => heap.claim_status = "COMPLETED"

\* the same without a failing commit: every commit of the task succeeded
FastTrackStoredFailed ==
    /\ pc = "bg_done"
    /\ executed = <<>>
    /\ NoStageFailure(result)
    /\ result.processing_mode = "fast_track"
    /\ heap.claim_status = "FAILED"

====
